---------------------------- MODULE Spec2Model ----------------------------
(***************************************************************************)
(* Model of procdoc_lambda.lambda_handler: decode the request payload,     *)
(* call Textract, join the LINE blocks, call Bedrock, normalise the        *)
(* generated text to three summary lines, and map every exception to a     *)
(* status-500 response.                                                    *)
(*                                                                         *)
(* Python str values are sequences of one-character strings, bytes values  *)
(* are sequences of integers 0..255, dicts are functions from keys, and    *)
(* JSON values are tagged records [t |-> type, v |-> value].               *)
(***************************************************************************)
EXTENDS Integers, Sequences, FiniteSets, TLC

VARIABLES
    pc,                \* position of the handler
    event,             \* the request passed to lambda_handler
    image_bytes,       \* decoded payload
    textract_response, \* what detect_document_text returned
    full_text,         \* joined LINE text
    bedrock_request,   \* keyword arguments of invoke_model
    bedrock_body,      \* bedrock_response['body'].read().decode('utf-8')
    summary_text,      \* first generated text segment
    exc,               \* exception travelling to the except clause
    response,          \* value returned by lambda_handler
    calls              \* service calls made so far, in order

vars == <<pc, event, image_bytes, textract_response, full_text, bedrock_request,
          bedrock_body, summary_text, exc, response, calls>>

(***************************************************************************)
(* Bounds of the model.                                                    *)
(***************************************************************************)
MaxBlocks == 2
MaxGenLines == 3

\* Python values: [t |-> type name, v |-> payload].
PyNone == [t |-> "None", v |-> <<>>]
PyStr(s) == [t |-> "str", v |-> s]
PyInt(n) == [t |-> "int", v |-> n]
PyBool(b) == [t |-> "bool", v |-> b]
PyList(l) == [t |-> "list", v |-> l]
PyDict(d) == [t |-> "dict", v |-> d]
EmptyDict == <<>>
Unbound == [t |-> "unbound", v |-> <<>>]

\* bool(x)
Truthy(x) ==
    CASE x.t = "bool" -> x.v
      [] x.t = "int" -> x.v # 0
      [] x.t = "None" -> FALSE
      [] OTHER -> x.v # <<>>

\* d.get(key, default) on a dict d
Get(d, key, default) == IF key \in DOMAIN d THEN d[key] ELSE default

NoExc == [type |-> "", msg |-> ""]
Raise(type, msg) == [type |-> type, msg |-> msg]

NL == "\n"

(***************************************************************************)
(* base64.b64decode(s) with validate=False, i.e. binascii.a2b_base64 in    *)
(* its lenient mode: characters outside the alphabet are skipped, a        *)
(* complete pad sequence ends the parse, an incomplete quad is an error.   *)
(***************************************************************************)
B64Chars ==
    <<"A","B","C","D","E","F","G","H","I","J","K","L","M","N","O","P",
      "Q","R","S","T","U","V","W","X","Y","Z","a","b","c","d","e","f",
      "g","h","i","j","k","l","m","n","o","p","q","r","s","t","u","v",
      "w","x","y","z","0","1","2","3","4","5","6","7","8","9","+","/">>

B64Value(c) ==
    IF \E i \in 1..64 : B64Chars[i] = c
    THEN (CHOOSE i \in 1..64 : B64Chars[i] = c) - 1
    ELSE 64

RECURSIVE a2b_base64(_, _, _, _, _, _)
a2b_base64(s, i, quad_pos, pads, leftchar, out) ==
    IF i > Len(s)
    THEN IF quad_pos = 0 THEN [ok |-> TRUE, bytes |-> out, err |-> NoExc]
         ELSE IF quad_pos = 1
              THEN [ok |-> FALSE, bytes |-> <<>>,
                    err |-> Raise("binascii.Error", "Invalid base64-encoded string: number of data characters cannot be 1 more than a multiple of 4")]
              ELSE [ok |-> FALSE, bytes |-> <<>>,
                    err |-> Raise("binascii.Error", "Incorrect padding")]
    ELSE LET ch == s[i]
             v == B64Value(ch)
         IN IF ch = "="
            THEN IF quad_pos >= 2
                 THEN IF quad_pos + pads + 1 >= 4
                      THEN [ok |-> TRUE, bytes |-> out, err |-> NoExc]
                      ELSE a2b_base64(s, i + 1, quad_pos, pads + 1, leftchar, out)
                 ELSE a2b_base64(s, i + 1, quad_pos, pads, leftchar, out)
            ELSE IF v >= 64
            THEN a2b_base64(s, i + 1, quad_pos, pads, leftchar, out)
            ELSE CASE quad_pos = 0 ->
                        a2b_base64(s, i + 1, 1, 0, v, out)
                   [] quad_pos = 1 ->
                        a2b_base64(s, i + 1, 2, 0, v % 16,
                                   Append(out, leftchar * 4 + v \div 16))
                   [] quad_pos = 2 ->
                        a2b_base64(s, i + 1, 3, 0, v % 4,
                                   Append(out, leftchar * 16 + v \div 4))
                   [] quad_pos = 3 ->
                        a2b_base64(s, i + 1, 0, 0, 0,
                                   Append(out, leftchar * 64 + v))

\* base64.b64decode applied to a Python value: None and numbers are rejected
\* with TypeError before any decoding.
b64decode(x) ==
    IF x.t = "str"
    THEN a2b_base64(x.v, 1, 0, 0, 0, <<>>)
    ELSE [ok |-> FALSE, bytes |-> <<>>,
          err |-> Raise("TypeError", "argument should be a bytes-like object or ASCII string")]

(***************************************************************************)
(* Request bodies.  The JSON bodies are the exact texts a client sends.    *)
(***************************************************************************)
Quoted(s) == <<"\"">> \o s \o <<"\"">>
FileDataKey == <<"f","i","l","e","_","d","a","t","a">>
OtherKey == <<"n","a","m","e">>
Obj1(k, vtext) == <<"{">> \o Quoted(k) \o <<":">> \o vtext \o <<"}">>

B64_A == <<"Q","Q","=","=">>           \* base64 of b"A"
B64_BadPad == <<"Q","Q">>              \* padding missing
B64_Stray == <<"Q","!","Q","=","=">>   \* a character outside the alphabet

J_EmptyObj == <<"{","}">>
J_FileValid == Obj1(FileDataKey, Quoted(B64_A))
J_FileBadPad == Obj1(FileDataKey, Quoted(B64_BadPad))
J_FileStray == Obj1(FileDataKey, Quoted(B64_Stray))
J_FileNum == Obj1(FileDataKey, <<"5">>)
J_Other == Obj1(OtherKey, Quoted(B64_A))
J_Null == <<"n","u","l","l">>
J_Num == <<"5">>
J_Arr == <<"[","]">>
J_Str == Quoted(FileDataKey)
J_Bad == <<"{","x">>

\* json.loads on the texts above; every other text of the model is not JSON.
JsonTable ==
    << <<J_EmptyObj, PyDict(EmptyDict)>>,
       <<J_FileValid, PyDict([file_data |-> PyStr(B64_A)])>>,
       <<J_FileBadPad, PyDict([file_data |-> PyStr(B64_BadPad)])>>,
       <<J_FileStray, PyDict([file_data |-> PyStr(B64_Stray)])>>,
       <<J_FileNum, PyDict([file_data |-> PyInt(5)])>>,
       <<J_Other, PyDict([name |-> PyStr(B64_A)])>>,
       <<J_Null, PyNone>>,
       <<J_Num, PyInt(5)>>,
       <<J_Arr, PyList(<<>>)>>,
       <<J_Str, PyStr(FileDataKey)>> >>

json_loads(s) ==
    IF \E i \in 1..Len(JsonTable) : JsonTable[i][1] = s
    THEN [ok |-> TRUE,
          value |-> JsonTable[CHOOSE i \in 1..Len(JsonTable) : JsonTable[i][1] = s][2],
          err |-> NoExc]
    ELSE [ok |-> FALSE, value |-> PyNone,
          err |-> Raise("JSONDecodeError", "Expecting value")]

\* needle in haystack, both str
IsSubstring(needle, hay) ==
    \E i \in 0..(Len(hay) - Len(needle)) :
        SubSeq(hay, i + 1, i + Len(needle)) = needle

\* "file_data" in x : membership on dict keys, list elements or substrings;
\* TypeError on values that are not containers.
InFileData(x) ==
    CASE x.t = "dict" -> [ok |-> TRUE, value |-> "file_data" \in DOMAIN x.v, err |-> NoExc]
      [] x.t = "list" ->
           [ok |-> TRUE,
            value |-> \E i \in 1..Len(x.v) :
                         x.v[i].t = "str" /\ x.v[i].v = FileDataKey,
            err |-> NoExc]
      [] x.t = "str" -> [ok |-> TRUE, value |-> IsSubstring(FileDataKey, x.v), err |-> NoExc]
      [] OTHER -> [ok |-> FALSE, value |-> FALSE,
                   err |-> Raise("TypeError", "argument of type is not iterable")]

\* x["file_data"]
Subscript(x) ==
    IF x.t = "dict"
    THEN [ok |-> TRUE, value |-> x.v["file_data"], err |-> NoExc]
    ELSE [ok |-> FALSE, value |-> PyNone,
          err |-> Raise("TypeError", "indices must be integers")]

Events ==
    << [isBase64Encoded |-> PyBool(FALSE)],
       [isBase64Encoded |-> PyBool(FALSE), body |-> PyNone],
       [isBase64Encoded |-> PyBool(FALSE), body |-> PyStr(<<>>)],
       [isBase64Encoded |-> PyBool(FALSE), body |-> PyStr(J_EmptyObj)],
       [isBase64Encoded |-> PyBool(FALSE), body |-> PyStr(J_Other)],
       [isBase64Encoded |-> PyBool(FALSE), body |-> PyStr(J_FileValid)],
       [isBase64Encoded |-> PyBool(FALSE), body |-> PyStr(J_FileBadPad)],
       [isBase64Encoded |-> PyBool(FALSE), body |-> PyStr(J_FileStray)],
       [isBase64Encoded |-> PyBool(FALSE), body |-> PyStr(J_FileNum)],
       [isBase64Encoded |-> PyBool(FALSE), body |-> PyStr(J_Null)],
       [isBase64Encoded |-> PyBool(FALSE), body |-> PyStr(J_Num)],
       [isBase64Encoded |-> PyBool(FALSE), body |-> PyStr(J_Arr)],
       [isBase64Encoded |-> PyBool(FALSE), body |-> PyStr(J_Str)],
       [isBase64Encoded |-> PyBool(FALSE), body |-> PyStr(J_Bad)],
       [isBase64Encoded |-> PyBool(FALSE), body |-> PyStr(B64_A)],
       [body |-> PyStr(J_EmptyObj)],
       [body |-> PyStr(J_Bad)],
       EmptyDict,
       [isBase64Encoded |-> PyBool(TRUE), body |-> PyStr(B64_A)],
       [isBase64Encoded |-> PyBool(TRUE), body |-> PyStr(B64_BadPad)],
       [isBase64Encoded |-> PyBool(TRUE), body |-> PyStr(B64_Stray)],
       [isBase64Encoded |-> PyBool(TRUE), body |-> PyStr(<<"Q">>)],
       [isBase64Encoded |-> PyBool(TRUE), body |-> PyNone] >>

(***************************************************************************)
(* Input decoder, lines 10-18.  The result says how the block ends: with   *)
(* image bytes, with the early return, or with an exception.               *)
(***************************************************************************)
Bytes(b) == [kind |-> "bytes", bytes |-> b, err |-> NoExc]
Raised(e) == [kind |-> "raise", bytes |-> <<>>, err |-> e]
Returned == [kind |-> "return", bytes |-> <<>>, err |-> NoExc]

DecodeB64(x) ==
    LET r == b64decode(x) IN IF r.ok THEN Bytes(r.bytes) ELSE Raised(r.err)

DecodeJsonBody(body) ==
    LET loaded == IF Truthy(body)
                  THEN json_loads(body.v)
                  ELSE [ok |-> TRUE, value |-> PyDict(EmptyDict), err |-> NoExc]
    IN IF ~loaded.ok THEN Raised(loaded.err)
       ELSE LET event_data == loaded.value
                member == InFileData(event_data)
            IN IF ~member.ok THEN Raised(member.err)
               ELSE IF member.value
               THEN LET item == Subscript(event_data)
                    IN IF ~item.ok THEN Raised(item.err)
                       ELSE DecodeB64(item.value)
               ELSE Returned

DecodeInput(ev) ==
    LET body == Get(ev, "body", PyStr(<<>>))
    IN IF Truthy(Get(ev, "isBase64Encoded", PyBool(FALSE)))
       THEN DecodeB64(body)
       ELSE DecodeJsonBody(body)

(***************************************************************************)
(* str methods used by the handler.                                        *)
(***************************************************************************)
Whitespace == {" ", "\n", "\t", "\r", "\f"}

RECURSIVE lstrip(_)
lstrip(s) ==
    IF s # <<>> /\ Head(s) \in Whitespace THEN lstrip(Tail(s)) ELSE s

RECURSIVE rstrip(_)
rstrip(s) ==
    IF s # <<>> /\ s[Len(s)] \in Whitespace
    THEN rstrip(SubSeq(s, 1, Len(s) - 1))
    ELSE s

\* s.strip()
strip(s) == rstrip(lstrip(s))

\* s.split(sep) for a one-character separator
RECURSIVE split(_, _)
split(s, sep) ==
    IF \E i \in 1..Len(s) : s[i] = sep
    THEN LET i == CHOOSE k \in 1..Len(s) :
                      s[k] = sep /\ \A j \in 1..(k - 1) : s[j] # sep
         IN <<SubSeq(s, 1, i - 1)>> \o split(SubSeq(s, i + 1, Len(s)), sep)
    ELSE <<s>>

\* sep.join(parts)
RECURSIVE join(_, _)
join(sep, parts) ==
    IF parts = <<>> THEN <<>>
    ELSE IF Len(parts) = 1 THEN parts[1]
    ELSE parts[1] \o <<sep>> \o join(sep, Tail(parts))

(***************************************************************************)
(* OCR stage, lines 22-24.                                                 *)
(***************************************************************************)
IsLine(item) == "BlockType" \in DOMAIN item /\ item.BlockType = "LINE"

LineItems_NoFilter(blocks) == SelectSeq(blocks, LAMBDA item : "Text" \in DOMAIN item)

\* the blocks that pass the filter of the comprehension, in order
LineItems(blocks) == SelectSeq(blocks, IsLine)

\* [item["Text"] for item in Blocks if item.get("BlockType") == "LINE"]
TextLines(resp) ==
    LET items == LineItems(Get(resp, "Blocks", <<>>))
    IN IF \E i \in 1..Len(items) : "Text" \notin DOMAIN items[i]
       THEN [ok |-> FALSE, value |-> <<>>, err |-> Raise("KeyError", "'Text'")]
       ELSE [ok |-> TRUE, value |-> [i \in 1..Len(items) |-> items[i].Text],
             err |-> NoExc]

FullText(text_lines) == join(NL, text_lines)

NoTextFound_EmptyList(text_lines, text) == text_lines = <<>>

NoTextFound_Never(text_lines, text) == FALSE

\* line 26: not full_text
NoTextFound(text_lines, text) == text = <<>>

(***************************************************************************)
(* Summarisation stage, lines 30-51.                                       *)
(***************************************************************************)
PromptHeader == <<"Summarize this tax document in exactly 3 lines:", NL>>

Prompt(text) == PromptHeader \o text

InvokeModelArgs(prompt) ==
    [contentType |-> "application/json",
     body |-> [anthropic_version |-> "bedrock-2023-05-31",
               max_tokens |-> 200,
               messages |-> <<[role |-> "user", content |-> prompt]>>],
     modelId |-> "anthropic.claude-3-sonnet-20240229-v1:0"]

\* result_json.get("content", [{}])[0].get("text", "")
SummaryText(result_json) ==
    IF result_json.t # "dict"
    THEN [ok |-> FALSE, value |-> <<>>,
          err |-> Raise("AttributeError", "object has no attribute 'get'")]
    ELSE LET content == Get(result_json.v, "content", <<EmptyDict>>)
         IN IF Len(content) = 0
            THEN [ok |-> FALSE, value |-> <<>>,
                  err |-> Raise("IndexError", "list index out of range")]
            ELSE [ok |-> TRUE, value |-> Get(content[1], "text", <<>>),
                  err |-> NoExc]

NonEmptyLines_KeepBlank(text) ==
    LET parts == split(strip(text), NL)
    IN [i \in 1..Len(parts) |-> strip(parts[i])]

\* [line.strip() for line in summary_text.strip().split('\n') if line.strip()]
NonEmptyLines(text) ==
    LET parts == split(strip(text), NL)
        stripped == [i \in 1..Len(parts) |-> strip(parts[i])]
    IN SelectSeq(stripped, LAMBDA line : line # <<>>)

ThreeLines_NoPad(lines) ==
    IF Len(lines) > 3 THEN SubSeq(lines, 1, 3) ELSE lines

\* lines 47-51: truncate to three lines or pad with empty strings
ThreeLines(lines) ==
    IF Len(lines) > 3 THEN SubSeq(lines, 1, 3)
    ELSE IF Len(lines) < 3 THEN lines \o [i \in 1..(3 - Len(lines)) |-> <<>>]
    ELSE lines

SummaryLines(text) == ThreeLines(NonEmptyLines(text))

(***************************************************************************)
(* Responses.  json.dumps yields a JSON document: a string or an object.   *)
(***************************************************************************)
JsonString(s) == [json |-> "string", value |-> s]
JsonResult(text, lines) ==
    [json |-> "object", value |-> [extracted_text |-> text, summary |-> lines]]

HttpResponse(status, body) == [statusCode |-> status, body |-> body]

NoFileData == HttpResponse(400, JsonString("No file data provided"))
NoText == HttpResponse(400, JsonString("OCR found no text"))
ServerError_Generic(e) == HttpResponse(500, JsonString("Server error"))

Success_Partial(text, lines) ==
    HttpResponse(200, [json |-> "object", value |-> [extracted_text |-> text]])

ServerError(e) == HttpResponse(500, JsonString("Server error: " \o e.msg))
Success(text, lines) == HttpResponse(200, JsonResult(text, lines))
NoResponse == HttpResponse(0, JsonString(""))

(***************************************************************************)
(* What the two services can do when called.                               *)
(***************************************************************************)
ServiceErrors ==
    { Raise("ClientError", "An error occurred (ThrottlingException)"),
      Raise("EndpointConnectionError", "Could not connect to the endpoint URL") }

BlockKinds ==
    << [BlockType |-> "PAGE"],
       [BlockType |-> "LINE", Text |-> <<"a">>],
       [BlockType |-> "LINE", Text |-> <<"b", " ", "c">>],
       [BlockType |-> "LINE", Text |-> <<>>],
       [BlockType |-> "WORD", Text |-> <<"a">>] >>

BlocksOf(f) == [i \in DOMAIN f |-> BlockKinds[f[i]]]

RawLines == << <<>>, <<"A">>, <<" ", "B", " ">>, <<" ">> >>

GeneratedTexts ==
    UNION { { join(NL, [i \in 1..n |-> RawLines[f[i]]]) :
                f \in [1..n -> 1..Len(RawLines)] } : n \in 1..MaxGenLines }

Ex_ABCD == <<"A", NL, "B", NL, "C", NL, "D">>
Ex_A_B == <<"A", NL, NL, "B">>
Ex_Empty == <<>>
Ex_Spaces == <<" ", " ", "A", " ", " ", NL, " ", "B", " ">>
Ex_CRLF == <<NL, "A", "\r", NL, "\t", "B", " ", "C", NL, NL>>

ExampleTexts == {Ex_ABCD, Ex_A_B, Ex_Empty, Ex_Spaces, Ex_CRLF}

TextSegment(t) == [type |-> "text", text |-> t]

(***************************************************************************)
(* The handler.                                                            *)
(***************************************************************************)
Init ==
    /\ pc = "start"
    /\ \E i \in 1..Len(Events) : event = Events[i]
    /\ image_bytes = <<>>
    /\ textract_response = EmptyDict
    /\ full_text = <<>>
    /\ bedrock_request = EmptyDict
    /\ bedrock_body = Unbound
    /\ summary_text = <<>>
    /\ exc = NoExc
    /\ response = NoResponse
    /\ calls = <<>>

\* lines 10-18
Decode ==
    /\ pc = "start"
    /\ LET d == DecodeInput(event)
       IN CASE d.kind = "bytes" ->
                 /\ image_bytes' = d.bytes
                 /\ pc' = "ocr"
                 /\ UNCHANGED <<exc, response>>
            [] d.kind = "return" ->
                 /\ response' = NoFileData
                 /\ pc' = "done"
                 /\ UNCHANGED <<image_bytes, exc>>
            [] d.kind = "raise" ->
                 /\ exc' = d.err
                 /\ pc' = "except"
                 /\ UNCHANGED <<image_bytes, response>>
    /\ UNCHANGED <<event, textract_response, full_text, bedrock_request,
                   bedrock_body, summary_text, calls>>

\* lines 21-27 once detect_document_text has returned resp
AfterTextract(resp) ==
    LET lines == TextLines(resp)
    IN /\ textract_response' = resp
       /\ IF ~lines.ok
          THEN /\ exc' = lines.err
               /\ pc' = "except"
               /\ UNCHANGED <<full_text, response>>
          ELSE /\ full_text' = FullText(lines.value)
               /\ IF NoTextFound(lines.value, full_text')
                  THEN /\ response' = NoText
                       /\ pc' = "done"
                  ELSE /\ pc' = "gen"
                       /\ UNCHANGED response
               /\ UNCHANGED exc

\* line 21: the call to the OCR service, which raises or returns
CallTextract ==
    /\ pc = "ocr"
    /\ calls' = Append(calls, "textract")
    /\ \/ \E e \in ServiceErrors :
            /\ exc' = e
            /\ pc' = "except"
            /\ UNCHANGED <<textract_response, full_text, response>>
       \/ \E n \in 0..MaxBlocks : \E f \in [1..n -> 1..Len(BlockKinds)] :
            AfterTextract([Blocks |-> BlocksOf(f)])
       \/ AfterTextract([DocumentMetadata |-> [Pages |-> 1]])
    /\ UNCHANGED <<event, image_bytes, bedrock_request, bedrock_body, summary_text>>

\* json.loads(bedrock_response['body'].read().decode('utf-8'))
LoadBody(body) ==
    IF body.t = "invalid"
    THEN [ok |-> FALSE, value |-> PyNone, err |-> Raise("JSONDecodeError", "Expecting value")]
    ELSE [ok |-> TRUE, value |-> body, err |-> NoExc]

\* lines 42-57 once invoke_model has returned a response with this body
AfterInvokeModel(body) ==
    LET loaded == LoadBody(body)
        text == SummaryText(loaded.value)
    IN /\ bedrock_body' = body
       /\ IF ~loaded.ok
          THEN /\ exc' = loaded.err
               /\ pc' = "except"
               /\ UNCHANGED <<summary_text, response>>
          ELSE IF ~text.ok
          THEN /\ exc' = text.err
               /\ pc' = "except"
               /\ UNCHANGED <<summary_text, response>>
          ELSE /\ summary_text' = text.value
               /\ response' = Success(full_text, SummaryLines(text.value))
               /\ pc' = "done"
               /\ UNCHANGED exc

\* lines 30-40: the call to the text-generation service
InvokeModel ==
    /\ pc = "gen"
    /\ bedrock_request' = InvokeModelArgs(Prompt(full_text))
    /\ calls' = Append(calls, "bedrock")
    /\ \/ \E e \in ServiceErrors :
            /\ exc' = e
            /\ pc' = "except"
            /\ UNCHANGED <<bedrock_body, summary_text, response>>
       \/ \E t \in GeneratedTexts \cup ExampleTexts :
            AfterInvokeModel(PyDict([content |-> <<TextSegment(t)>>]))
       \/ AfterInvokeModel(PyDict([content |-> <<TextSegment(<<"A">>),
                                                TextSegment(<<"B", NL, "B">>)>>]))
       \/ AfterInvokeModel(PyDict([id |-> "msg_01"]))
       \/ AfterInvokeModel(PyDict([content |-> <<>>]))
       \/ AfterInvokeModel(PyDict([content |-> <<[type |-> "text"]>>]))
       \/ AfterInvokeModel(PyList(<<>>))
       \/ AfterInvokeModel([t |-> "invalid", v |-> <<>>])
    /\ UNCHANGED <<event, image_bytes, textract_response, full_text>>

\* lines 59-61
HandleException ==
    /\ pc = "except"
    /\ response' = ServerError(exc)
    /\ pc' = "done"
    /\ UNCHANGED <<event, image_bytes, textract_response, full_text,
                   bedrock_request, bedrock_body, summary_text, exc, calls>>

Next == Decode \/ CallTextract \/ InvokeModel \/ HandleException

Spec == Init /\ [][Next]_vars

(***************************************************************************)
(* Properties.                                                             *)
(***************************************************************************)
Done == pc = "done"
Status == response.statusCode
IsSuccess == Done /\ Status = 200
IsMessage(status, text) ==
    /\ Status = status
    /\ response.body.json = "string"
    /\ response.body.value = text

Blocks == Get(textract_response, "Blocks", <<>>)
OcrResponded == DOMAIN textract_response # {}
GenResponded == bedrock_body.t # "unbound"
EmptyLine == <<>>

\* C1: every status-200 response carries a summary of exactly three strings,
\* whatever text was generated.
Thm_C1_SummaryShape ==
    IsSuccess =>
        /\ response.body.json = "object"
        /\ "summary" \in DOMAIN response.body.value
        /\ Len(response.body.value.summary) = 3
        /\ \A i \in 1..3 : response.body.value.summary[i] \in Seq(STRING)

Wit_C1_WhitespaceOnly ==
    /\ IsSuccess
    /\ summary_text = <<" ", NL, " ">>
    /\ response.body.value.summary = <<EmptyLine, EmptyLine, EmptyLine>>

\* C2: the handler ends with a complete success object (status 200, non-empty
\* extracted_text and a 3-element summary) or with a status 400/500 message
\* string, never with a partial object, and it never stops without a response.
Thm_C2_ResponseShapes ==
    /\ pc \in {"start", "ocr", "gen", "except", "done"}
    /\ ~Done => ENABLED Next
    /\ Done =>
        \/ /\ Status = 200
           /\ response.body.json = "object"
           /\ DOMAIN response.body.value = {"extracted_text", "summary"}
           /\ response.body.value.extracted_text # <<>>
           /\ Len(response.body.value.summary) = 3
        \/ /\ Status \in {400, 500}
           /\ response.body.json = "string"

Wit_C2_CaughtParseFailure ==
    /\ Done
    /\ Status = 500
    /\ exc.type = "JSONDecodeError"
    /\ calls = <<"textract", "bedrock">>

\* A canonical base64 text: whole quads of alphabet characters, with at most
\* two pad characters, at the very end.
StrictBase64(s) ==
    /\ Len(s) > 0
    /\ Len(s) % 4 = 0
    /\ \A i \in 1..Len(s) :
          \/ B64Value(s[i]) < 64
          \/ /\ s[i] = "="
             /\ i >= Len(s) - 1
             /\ \A j \in i..Len(s) : s[j] = "="

IsBase64Flagged(ev) == Truthy(Get(ev, "isBase64Encoded", PyBool(FALSE)))
BodyOf(ev) == Get(ev, "body", PyStr(<<>>))
HasFileDataField(x) == x.t = "dict" /\ "file_data" \in DOMAIN x.v

\* the payload is present but cannot be decoded
Undecodable(ev) ==
    LET body == BodyOf(ev)
    IN /\ body.t = "str"
       /\ body.v # <<>>
       /\ IF IsBase64Flagged(ev)
          THEN ~StrictBase64(body.v)
          ELSE LET loaded == json_loads(body.v)
               IN \/ ~loaded.ok
                  \/ /\ HasFileDataField(loaded.value)
                     /\ LET item == loaded.value.v["file_data"]
                        IN item.t # "str" \/ ~StrictBase64(item.v)

\* C3: an undecodable payload is rejected with status 400 and no service is
\* called.
Claim_C3_MalformedInputIs400 ==
    Undecodable(event) =>
        /\ calls = <<>>
        /\ Done => Status = 400

\* the body is empty, or is JSON without a file_data field
MissingFileData(ev) ==
    LET body == BodyOf(ev)
    IN /\ ~IsBase64Flagged(ev)
       /\ \/ ~Truthy(body)
          \/ /\ body.t = "str"
             /\ json_loads(body.v).ok
             /\ ~HasFileDataField(json_loads(body.v).value)

\* C4: without the base64 flag, an empty body or a JSON body without
\* file_data gets status 400 "No file data provided" and no service is called.
Claim_C4_MissingFileDataIs400 ==
    MissingFileData(event) =>
        /\ calls = <<>>
        /\ Done => IsMessage(400, "No file data provided")

\* C4 restricted to bodies that are empty or a JSON object.
Lemma_C4_ObjectBodies ==
    (/\ MissingFileData(event)
     /\ Truthy(BodyOf(event)) => json_loads(BodyOf(event).v).value.t = "dict")
    => /\ calls = <<>>
       /\ Done => IsMessage(400, "No file data provided")

LineIdx == {i \in 1..Len(Blocks) : Blocks[i].BlockType = "LINE"}

\* the text joined from the LINE blocks is empty: there is no LINE block, or
\* there is one and its text is empty
JoinedTextEmpty ==
    /\ \A i \in LineIdx : "Text" \in DOMAIN Blocks[i]
    /\ \/ LineIdx = {}
       \/ \E i \in LineIdx : LineIdx = {i} /\ Blocks[i].Text = <<>>

\* C5: when the OCR service answers and the joined LINE text is empty, the
\* response is status 400 "OCR found no text" and the text-generation service
\* is not called.
Thm_C5_NoTextIs400 ==
    (OcrResponded /\ JoinedTextEmpty) =>
        /\ calls = <<"textract">>
        /\ Done
        /\ IsMessage(400, "OCR found no text")

Wit_C5_NoLineBlock ==
    /\ Done
    /\ OcrResponded
    /\ Len(Blocks) = 2
    /\ LineIdx = {}
    /\ Status = 400

\* C6: a service call that raises ends the invocation with status 500 and a
\* message containing the error text; the call is not repeated and no other
\* service call follows it.
Thm_C6_UpstreamFailure ==
    exc \in ServiceErrors =>
        /\ pc \in {"except", "done"}
        /\ IF OcrResponded
           THEN calls = <<"textract", "bedrock">> /\ ~GenResponded
           ELSE calls = <<"textract">>
        /\ Done => IsMessage(500, "Server error: " \o exc.msg)

Wit_C6_GenerationFailed ==
    /\ Done
    /\ exc \in ServiceErrors
    /\ calls = <<"textract", "bedrock">>
    /\ Status = 500

(***************************************************************************)
(* The normalisation stated on positions of the generated text: a line is  *)
(* the stretch between two consecutive line breaks (or text ends), it      *)
(* counts when it holds a character that is not whitespace, and its        *)
(* content runs from its first such character to its last.                 *)
(***************************************************************************)
RefBreaks(t) == {0, Len(t) + 1} \cup {i \in 1..Len(t) : t[i] = NL}

RefInk(t, breaks, a) ==
    LET b == CHOOSE x \in breaks : x > a /\ \A y \in breaks : y > a => y >= x
    IN {i \in (a + 1)..(b - 1) : t[i] \notin Whitespace}

\* the breaks that open a line with visible content
RefStarts(t) ==
    LET breaks == RefBreaks(t)
    IN {a \in breaks : a <= Len(t) /\ RefInk(t, breaks, a) # {}}

RefLine(t, a) ==
    LET ink == RefInk(t, RefBreaks(t), a)
        lo == CHOOSE i \in ink : \A j \in ink : i <= j
        hi == CHOOSE i \in ink : \A j \in ink : i >= j
    IN SubSeq(t, lo, hi)

RefSummary(t) ==
    LET starts == RefStarts(t)
        rank(a) == Cardinality({x \in starts : x < a}) + 1
    IN [k \in 1..3 |->
           IF \E a \in starts : rank(a) = k
           THEN RefLine(t, CHOOSE a \in starts : rank(a) = k)
           ELSE EmptyLine]

\* C7: the summary of a success response is the reference normalisation of
\* the generated text: the first three non-blank lines, stripped, in order,
\* padded with empty strings; with the four cases the specification lists.
Thm_C7_SummaryIsNormalisation ==
    IsSuccess =>
        LET summary == response.body.value.summary
        IN /\ summary = RefSummary(summary_text)
           /\ summary_text = Ex_ABCD => summary = << <<"A">>, <<"B">>, <<"C">> >>
           /\ summary_text = Ex_A_B => summary = << <<"A">>, <<"B">>, EmptyLine >>
           /\ summary_text = Ex_Empty => summary = <<EmptyLine, EmptyLine, EmptyLine>>
           /\ summary_text = Ex_Spaces => summary = << <<"A">>, <<"B">>, EmptyLine >>

Wit_C7_BlankLineDropped ==
    /\ IsSuccess
    /\ summary_text = Ex_A_B
    /\ response.body.value.summary = << <<"A">>, <<"B">>, EmptyLine >>

\* C8: the services are called at most once each, OCR first; generation is
\* called only after OCR returned non-empty line text and never after a
\* decoding failure; a success response means both were called, in order.
Thm_C8_LinearPipeline ==
    /\ calls \in {<<>>, <<"textract">>, <<"textract", "bedrock">>}
    /\ calls # <<>> => pc # "start"
    /\ Len(calls) = 2 =>
          /\ OcrResponded
          /\ \E i \in LineIdx : \/ Blocks[i].Text # <<>>
                                \/ Cardinality(LineIdx) > 1
    /\ DecodeInput(event).kind # "bytes" => calls = <<>>
    /\ IsSuccess => calls = <<"textract", "bedrock">>

Wit_C8_BothCalledInOrder ==
    /\ IsSuccess
    /\ calls = <<"textract", "bedrock">>
    /\ GenResponded

\* the response has no content segment: no content key, an empty content
\* list, or a first segment without text
NoContentSegment ==
    /\ GenResponded
    /\ bedrock_body.t = "dict"
    /\ \/ "content" \notin DOMAIN bedrock_body.v
       \/ Len(bedrock_body.v.content) = 0
       \/ "text" \notin DOMAIN bedrock_body.v.content[1]

\* C9: a text-generation response without a content segment counts as empty
\* generated text: status 200, three empty summary lines, the extracted text.
Claim_C9_NoContentIsEmptyText ==
    (Done /\ NoContentSegment) =>
        /\ Status = 200
        /\ response.body.json = "object"
        /\ response.body.value.summary = <<EmptyLine, EmptyLine, EmptyLine>>
        /\ response.body.value.extracted_text = full_text

\* position in the text where the k-th LINE block starts, counted from 0
RECURSIVE RefOffset(_, _)
RefOffset(texts, k) ==
    IF k = 1 THEN 0 ELSE RefOffset(texts, k - 1) + Len(texts[k - 1]) + 1

\* text lays out the payloads of the LINE blocks in block order, one line
\* break between neighbours and nothing else
IsLineLayout(text) ==
    LET idx == LineIdx
        n == Cardinality(idx)
        nth(k) == CHOOSE i \in idx : Cardinality({j \in idx : j < i}) = k - 1
        texts == [k \in 1..n |-> Blocks[nth(k)].Text]
    IN /\ n >= 1
       /\ Len(text) = RefOffset(texts, n) + Len(texts[n])
       /\ \A k \in 1..n :
             /\ SubSeq(text, RefOffset(texts, k) + 1,
                       RefOffset(texts, k) + Len(texts[k])) = texts[k]
             /\ k < n => text[RefOffset(texts, k) + Len(texts[k]) + 1] = NL

\* C10: extracted_text, and the text that follows the instruction in the
\* prompt, is the LINE payloads in service order joined by single newlines;
\* other blocks contribute nothing.
Thm_C10_ExtractedTextIsLineText ==
    /\ IsSuccess => IsLineLayout(response.body.value.extracted_text)
    /\ Len(calls) = 2 =>
          LET content == bedrock_request.body.messages[1].content
          IN /\ Len(bedrock_request.body.messages) = 1
             /\ SubSeq(content, 1, 2) = PromptHeader
             /\ IsLineLayout(SubSeq(content, 3, Len(content)))

Wit_C10_WordBlockSkipped ==
    /\ IsSuccess
    /\ Len(Blocks) = 2
    /\ Blocks[1].BlockType = "WORD"
    /\ Blocks[2].BlockType = "LINE"
    /\ response.body.value.extracted_text = <<"b", " ", "c">>

=============================================================================
